---- MODULE Spec2Model ----
(***************************************************************************)
(* Model of tensor_img_utils.TensorImgUtils: the shape-driven layout       *)
(* classifier (identify_type), the permutation converter (from_to,         *)
(* convert_to_type), the height/width axis lookup, the batch normalisers   *)
(* and most_pixels.                                                        *)
(*                                                                         *)
(* A tensor is modelled by its shape, a sequence of extents; axis k of the *)
(* source (0-based) is element k+1 of the sequence.  A Python str is a     *)
(* sequence of one-character strings and a list[str] is a sequence of such *)
(* strs, so that list(to_type), "".join(from_type) and the comparison      *)
(* from_type == list(to_type) are computed as Python computes them.        *)
(* A call returns a record [err, val]: err = "" for a normal return with   *)
(* value val, otherwise err is the exception raised and val its payload.   *)
(***************************************************************************)
EXTENDS Integers, Sequences, FiniteSets, TLC

VARIABLES tensor, to_type, to_type2, from_type, strict, img_tensors, pc, ret, ret2

vars == <<tensor, to_type, to_type2, from_type, strict, img_tensors, pc, ret, ret2>>

----------------------------------------------------------------------------
(* Bounds of the model *)

\* extents 1..MaxSmallExtent, plus the extents around the >= 64 threshold
MaxSmallExtent == 5
\* extents 1..MaxConvExtent (plus two image-sized ones) for the conversion runs
MaxConvExtent == 4
\* longest list handed to most_pixels
MaxImgs == 3

----------------------------------------------------------------------------
(* Python and torch primitives used by the source *)

Return(v) == [err |-> "", val |-> v]

Raise(e, payload) == [err |-> e, val |-> payload]

\* Python's None (a function that falls off its end returns it)
None == <<>>

ValueError_dimensions == "ValueError: dimensions is not a valid number of dimensions for an image tensor."

ValueError_shape == "ValueError: Could not determine shape of Tensor"

ValueError_batch == "ValueError: This is not a single image. It's a batch of images."

ValueError_index == "ValueError: substring not found"

ValueError_max == "ValueError: max() arg is an empty sequence"

TypeError_unpack == "TypeError: cannot unpack non-iterable NoneType object"

RuntimeError_permute == "RuntimeError: permute: dims do not match the tensor"

\* Tensor.dim()
dim(t) == Len(t)

\* Tensor.size(d), d a 0-based axis
size(t, d) == t[d + 1]

\* Tensor.squeeze(0): removes axis 0 only when its extent is 1
squeeze0(t) == IF Len(t) >= 1 /\ t[1] = 1 THEN Tail(t) ELSE t

\* Tensor.unsqueeze(0): a new leading axis of extent 1
unsqueeze0(t) == <<1>> \o t

\* Tensor.permute(dims): dims must name every axis of the tensor exactly once
permute(t, dims) ==
  IF /\ Len(dims) = Len(t)
     /\ \A i \in 1..Len(dims) : dims[i] >= 0 /\ dims[i] < Len(t)
     /\ \A i, j \in 1..Len(dims) : i # j => dims[i] # dims[j]
  THEN Return([i \in 1..Len(dims) |-> t[dims[i] + 1]])
  ELSE Raise(RuntimeError_permute, <<>>)

\* list(s) for a str s: the list of its one-character strs
list(s) == [i \in 1..Len(s) |-> <<s[i]>>]

RECURSIVE join(_)
\* "".join(l) for a list of strs
join(l) == IF l = <<>> THEN <<>> ELSE Head(l) \o join(Tail(l))

\* s.find(c) for a str s and a one-character str c: lowest 0-based index, -1 if absent
find(s, c) ==
  IF \E i \in 1..Len(s) : <<s[i]>> = c
  THEN (CHOOSE i \in 1..Len(s) : <<s[i]>> = c /\ \A j \in 1..(i - 1) : <<s[j]>> # c) - 1
  ELSE -1

----------------------------------------------------------------------------
(* Role lists and labels returned by identify_type *)

roles_HW == << <<"H">>, <<"W">> >>

roles_HWC == << <<"H">>, <<"W">>, <<"C">> >>

roles_CHW == << <<"C">>, <<"H">>, <<"W">> >>

roles_BHW == << <<"B">>, <<"H">>, <<"W">> >>

roles_BHWC == << <<"B">>, <<"H">>, <<"W">>, <<"C">> >>

roles_BCHW == << <<"B">>, <<"C">>, <<"H">>, <<"W">> >>

HW == <<"H", "W">>

HWRGB == <<"H", "W", "R", "G", "B">>

HWRGBA == <<"H", "W", "R", "G", "B", "A">>

RGBHW == <<"R", "G", "B", "H", "W">>

RGBAHW == <<"R", "G", "B", "A", "H", "W">>

HWA == <<"H", "W", "A">>

AHW == <<"A", "H", "W">>

BHW == <<"B", "H", "W">>

BHWRGB == <<"B", "H", "W", "R", "G", "B">>

BHWRGBA == <<"B", "H", "W", "R", "G", "B", "A">>

BRGBHW == <<"B", "R", "G", "B", "H", "W">>

BRGBAHW == <<"B", "R", "G", "B", "A", "H", "W">>

BHWA == <<"B", "H", "W", "A">>

BAHW == <<"B", "A", "H", "W">>

\* the size threshold of the opinionated rules
Threshold == 64

----------------------------------------------------------------------------
(* TensorImgUtils *)

\* identify_type with the axis-0 colour test placed before the axis-2 test
identify_type_rule_order(t) ==
  LET dim_n == dim(t) IN
  IF dim_n = 2 THEN Return(<<roles_HW, HW>>)
  ELSE IF dim_n = 3 THEN
    IF size(t, 0) = 3 THEN Return(<<roles_CHW, RGBHW>>)
    ELSE IF size(t, 0) = 4 THEN Return(<<roles_CHW, RGBAHW>>)
    ELSE IF size(t, 2) = 3 THEN Return(<<roles_HWC, HWRGB>>)
    ELSE IF size(t, 2) = 4 THEN Return(<<roles_HWC, HWRGBA>>)
    ELSE IF size(t, 2) = 1 /\ size(t, 0) >= Threshold THEN Return(<<roles_HWC, HWA>>)
    ELSE IF size(t, 0) = 1 THEN Return(<<roles_CHW, AHW>>)
    ELSE IF size(t, 0) >= 2 /\ size(t, 1) >= Threshold THEN Return(<<roles_BHW, BHW>>)
    ELSE Raise(ValueError_shape, <<dim_n, t>>)
  ELSE IF dim_n = 4 THEN
    IF size(t, 3) >= 3 /\ size(t, 3) = 3 THEN Return(<<roles_BHWC, BHWRGB>>)
    ELSE IF size(t, 3) >= 3 /\ size(t, 3) = 4 THEN Return(<<roles_BHWC, BHWRGBA>>)
    ELSE IF size(t, 1) >= 3 /\ size(t, 1) = 3 THEN Return(<<roles_BCHW, BRGBHW>>)
    ELSE IF size(t, 1) >= 3 /\ size(t, 1) = 4 THEN Return(<<roles_BCHW, BRGBAHW>>)
    ELSE IF size(t, 0) = 1 /\ size(t, 3) = 1 THEN Return(<<roles_BHWC, BHWA>>)
    ELSE IF size(t, 1) = 1 THEN Return(<<roles_BCHW, BAHW>>)
    ELSE Raise(ValueError_shape, <<dim_n, t>>)
  ELSE Raise(ValueError_dimensions, dim_n)

identify_type(t) ==
  LET dim_n == dim(t) IN
  IF dim_n = 2 THEN Return(<<roles_HW, HW>>)
  ELSE IF dim_n = 3 THEN
    IF size(t, 2) = 3 THEN Return(<<roles_HWC, HWRGB>>)
    ELSE IF size(t, 2) = 4 THEN Return(<<roles_HWC, HWRGBA>>)
    ELSE IF size(t, 0) = 3 THEN Return(<<roles_CHW, RGBHW>>)
    ELSE IF size(t, 0) = 4 THEN Return(<<roles_CHW, RGBAHW>>)
    ELSE IF size(t, 2) = 1 /\ size(t, 0) >= Threshold THEN Return(<<roles_HWC, HWA>>)
    ELSE IF size(t, 0) = 1 THEN Return(<<roles_CHW, AHW>>)
    ELSE IF size(t, 0) >= 2 /\ size(t, 1) >= Threshold THEN Return(<<roles_BHW, BHW>>)
    ELSE Raise(ValueError_shape, <<dim_n, t>>)
  ELSE IF dim_n = 4 THEN
    IF size(t, 3) >= 3 /\ size(t, 3) = 3 THEN Return(<<roles_BHWC, BHWRGB>>)
    ELSE IF size(t, 3) >= 3 /\ size(t, 3) = 4 THEN Return(<<roles_BHWC, BHWRGBA>>)
    ELSE IF size(t, 1) >= 3 /\ size(t, 1) = 3 THEN Return(<<roles_BCHW, BRGBHW>>)
    ELSE IF size(t, 1) >= 3 /\ size(t, 1) = 4 THEN Return(<<roles_BCHW, BRGBAHW>>)
    ELSE IF size(t, 0) = 1 /\ size(t, 3) = 1 THEN Return(<<roles_BHWC, BHWA>>)
    ELSE IF size(t, 1) = 1 THEN Return(<<roles_BCHW, BAHW>>)
    ELSE Raise(ValueError_shape, <<dim_n, t>>)
  ELSE Raise(ValueError_dimensions, dim_n)

\* from_to walking the target's roles from the last to the first
from_to_reversed(from, to) ==
  LET from_s == join(from)
      to_s == join(to)
      permute_arg == [i \in 1..Len(to_s) |-> find(from_s, <<to_s[Len(to_s) + 1 - i]>>)]
  IN IF \E i \in 1..Len(to_s) : permute_arg[i] = -1
     THEN Raise(ValueError_index, <<>>)
     ELSE Return(permute_arg)

\* the plan (permute_arg) of the closure from_to returns
from_to(from, to) ==
  LET from_s == join(from)
      to_s == join(to)
      permute_arg == [i \in 1..Len(to_s) |-> find(from_s, <<to_s[i]>>)]
  IN IF \E i \in 1..Len(to_s) : permute_arg[i] = -1
     THEN Raise(ValueError_index, <<>>)
     ELSE Return(permute_arg)

\* the closure from_to returns, applied to a tensor
convert(permute_arg, t) == permute(t, permute_arg)

\* lines 54-57 of convert_to_type: a rank-4 source and a rank-3 target
squeeze_batch_dim(t, from, to) ==
  IF Len(from) = 4 /\ Len(to) = 3
  THEN [tensor |-> squeeze0(t), from_type |-> Tail(from)]
  ELSE [tensor |-> t, from_type |-> from]

\* lines 58-61 of convert_to_type: a rank-3 source and a rank-4 target
unsqueeze_batch_dim(t, from, to) ==
  IF Len(from) = 3 /\ Len(to) = 4
  THEN [tensor |-> unsqueeze0(t), from_type |-> << <<"B">> >> \o from]
  ELSE [tensor |-> t, from_type |-> from]

\* the tensor and the source role list convert_to_type hands to from_to
rank_adjusted(t, from, to) ==
  LET a == squeeze_batch_dim(t, from, to)
  IN unsqueeze_batch_dim(a.tensor, a.from_type, to)

convert_to_type(t, to) ==
  LET id == identify_type(t) IN
  IF id.err # "" THEN id
  ELSE IF id.val[1] = list(to) THEN Return(t)
  ELSE
    LET a == rank_adjusted(t, id.val[1], to)
        plan == from_to(a.from_type, list(to))
    IN IF plan.err # "" THEN plan ELSE convert(plan.val, a.tensor)

infer_hw_axis(image) ==
  LET id == identify_type(image) IN
  IF id.err # "" THEN id
  ELSE
    LET tensor_type == id.val[2] IN
    IF tensor_type \in {HWRGB, HWRGBA, HWA} THEN Return(<<0, 1>>)
    ELSE IF tensor_type \in {RGBHW, RGBAHW, AHW} THEN Return(<<1, 2>>)
    ELSE IF tensor_type = BHWRGB THEN Return(<<1, 2>>)
    ELSE IF tensor_type = BRGBHW THEN Return(<<2, 3>>)
    ELSE Return(None)

height_width(image) ==
  LET hw == infer_hw_axis(image) IN
  IF hw.err # "" THEN hw
  ELSE IF hw.val = None THEN Raise(TypeError_unpack, <<>>)
  ELSE Return(<<size(image, hw.val[1]), size(image, hw.val[2])>>)

\* smaller_axis comparing with <= instead of <
smaller_axis_le(image) ==
  LET hw == height_width(image) IN
  IF hw.err # "" THEN hw
  ELSE
    LET ax == infer_hw_axis(image) IN
    IF ax.err # "" THEN ax
    ELSE IF ax.val = None THEN Raise(TypeError_unpack, <<>>)
    ELSE Return(IF hw.val[1] <= hw.val[2] THEN ax.val[1] ELSE ax.val[2])

smaller_axis(image) ==
  LET hw == height_width(image) IN
  IF hw.err # "" THEN hw
  ELSE
    LET ax == infer_hw_axis(image) IN
    IF ax.err # "" THEN ax
    ELSE IF ax.val = None THEN Raise(TypeError_unpack, <<>>)
    ELSE Return(IF hw.val[1] < hw.val[2] THEN ax.val[1] ELSE ax.val[2])

larger_axis(image) ==
  LET hw == height_width(image) IN
  IF hw.err # "" THEN hw
  ELSE
    LET ax == infer_hw_axis(image) IN
    IF ax.err # "" THEN ax
    ELSE IF ax.val = None THEN Raise(TypeError_unpack, <<>>)
    ELSE Return(IF hw.val[1] > hw.val[2] THEN ax.val[1] ELSE ax.val[2])

\* test_squeeze_batch taking the first image (tensor[0]) instead of squeeze(0)
test_squeeze_batch_first(t, s) ==
  IF dim(t) = 4 THEN
    IF size(t, 0) = 1 \/ ~s THEN Return(Tail(t))
    ELSE Raise(ValueError_batch, size(t, 0))
  ELSE Return(t)

test_squeeze_batch(t, s) ==
  IF dim(t) = 4 THEN
    IF size(t, 0) = 1 \/ ~s THEN Return(squeeze0(t))
    ELSE Raise(ValueError_batch, size(t, 0))
  ELSE Return(t)

\* test_unsqueeze_batch adding the singleton axis last (unsqueeze(-1))
test_unsqueeze_batch_last(t) ==
  LET id == identify_type(t) IN
  IF id.err # "" THEN id
  ELSE IF id.val[1][1] = <<"B">> THEN Return(t)
  ELSE Return(t \o <<1>>)

test_unsqueeze_batch(t) ==
  LET id == identify_type(t) IN
  IF id.err # "" THEN id
  ELSE IF id.val[1][1] = <<"B">> THEN Return(t)
  ELSE Return(unsqueeze0(t))

\* sizes.index(max(sizes)) of most_pixels, 0-based; sizes is not empty
index_of_max(sizes) ==
  CHOOSE i \in 0..(Len(sizes) - 1) :
    /\ \A j \in 1..Len(sizes) : sizes[j] <= sizes[i + 1]
    /\ \A j \in 1..i : sizes[j] # sizes[i + 1]

most_pixels(imgs) ==
  LET hws == [i \in 1..Len(imgs) |-> height_width(imgs[i])] IN
  IF \E i \in 1..Len(imgs) : hws[i].err # ""
  THEN hws[CHOOSE i \in 1..Len(imgs) : hws[i].err # "" /\ \A j \in 1..(i - 1) : hws[j].err = ""]
  ELSE
    LET sizes == [i \in 1..Len(imgs) |-> hws[i].val[1] * hws[i].val[2]] IN
    IF sizes = <<>> THEN Raise(ValueError_max, <<>>)
    ELSE Return(imgs[index_of_max(sizes) + 1])

----------------------------------------------------------------------------
(* Inputs *)

Extents == (1..MaxSmallExtent) \cup {Threshold - 1, Threshold, 80}

ConvExtents == (1..MaxConvExtent) \cup {Threshold, 80}

ShapesOf(n, S) == [1..n -> S]

\* shapes of the supported ranks
Shapes == ShapesOf(2, Extents) \cup ShapesOf(3, Extents) \cup ShapesOf(4, Extents)

\* shapes of ranks 0, 1 and 5
OtherRankShapes == {<<>>} \cup ShapesOf(1, {1, 3, Threshold}) \cup ShapesOf(5, {1, 3, Threshold})

ConvShapes == ShapesOf(2, ConvExtents) \cup ShapesOf(3, ConvExtents) \cup ShapesOf(4, ConvExtents)

\* the strs whose characters are those of s, each used once
Perms(s) ==
  {[i \in 1..Len(s) |-> s[p[i]]] :
     p \in {q \in [1..Len(s) -> 1..Len(s)] : \A i, j \in 1..Len(s) : i # j => q[i] # q[j]}}

Labels ==
  {HW, HWRGB, HWRGBA, RGBHW, RGBAHW, HWA, AHW, BHW, BHWRGB, BHWRGBA, BRGBHW, BRGBAHW, BHWA, BAHW}

\* the role lists identify_type returns
RoleLists == {roles_HW, roles_HWC, roles_CHW, roles_BHW, roles_BHWC, roles_BCHW}

\* their strs: "HW", "HWC", "CHW", "BHW", "BHWC", "BCHW"
RoleStrs == {join(r) : r \in RoleLists}

\* target types: every label, every reordering of a role str, and strs that drop,
\* repeat or add a role
ToTypes ==
  Labels \cup UNION {Perms(s) : s \in RoleStrs}
         \cup {<<"H", "H", "W">>, <<"H", "W", "C", "C">>, <<"B", "B", "H", "W">>, <<"C", "H">>}

\* source role lists handed to from_to: those of identify_type, and the one
\* convert_to_type builds for a BHW tensor and a rank-4 target
FromLists == RoleLists \cup {<< <<"B">> >> \o roles_BHW}

ImgShapes ==
  {<<64, 64>>, <<128, 64>>, <<32, 32>>, <<64, 64, 3>>, <<3, 64, 128>>, <<1, 32, 32, 3>>, <<80, 80, 1>>}

ImgLists == UNION {ShapesOf(n, ImgShapes) : n \in 0..MaxImgs}

----------------------------------------------------------------------------
(* Calls.  pc = "start" before the call; afterwards pc names the call made   *)
(* and ret holds what it returned or raised.                                 *)

Idle == [err |-> "", val |-> None]

InitCommon ==
  /\ pc = "start"
  /\ ret = Idle
  /\ ret2 = Idle
  /\ to_type2 = <<>>

Call(name, r) ==
  /\ pc = "start"
  /\ pc' = name
  /\ ret' = r
  /\ UNCHANGED <<tensor, to_type, to_type2, from_type, strict, img_tensors, ret2>>

IdentifyType == Call("identify_type", identify_type(tensor))

InferHwAxis == Call("infer_hw_axis", infer_hw_axis(tensor))

HeightWidth == Call("height_width", height_width(tensor))

SmallerAxis == Call("smaller_axis", smaller_axis(tensor))

LargerAxis == Call("larger_axis", larger_axis(tensor))

InitIdentify ==
  /\ InitCommon
  /\ tensor \in Shapes \cup OtherRankShapes
  /\ to_type = <<>>
  /\ from_type = <<>>
  /\ strict = FALSE
  /\ img_tensors = <<>>

NextIdentify == IdentifyType \/ InferHwAxis \/ HeightWidth \/ SmallerAxis \/ LargerAxis

SpecIdentify == InitIdentify /\ [][NextIdentify]_vars

\* convert_to_type(tensor, to_type)
ConvertToType == Call("convert_to_type", convert_to_type(tensor, to_type))

\* convert_to_type(y, t) on the tensor y that convert_to_type(tensor, to_type) returned
ConvertBack ==
  /\ pc = "convert_to_type"
  /\ ret.err = ""
  /\ \E t \in RoleStrs :
       /\ to_type2' = t
       /\ ret2' = convert_to_type(ret.val, t)
  /\ pc' = "convert_back"
  /\ UNCHANGED <<tensor, to_type, from_type, strict, img_tensors, ret>>

InitConvert ==
  /\ InitCommon
  /\ tensor \in ConvShapes
  /\ to_type \in ToTypes
  /\ from_type = <<>>
  /\ strict = FALSE
  /\ img_tensors = <<>>

NextConvert == ConvertToType \/ ConvertBack

SpecConvert == InitConvert /\ [][NextConvert]_vars

\* from_to(from_type, list(to_type)): ret is the plan of the returned closure
FromTo == Call("from_to", from_to(from_type, list(to_type)))

\* the closure applied to a tensor of the source's rank
ApplyConvert ==
  /\ pc = "from_to"
  /\ ret.err = ""
  /\ ret2' = convert(ret.val, tensor)
  /\ pc' = "convert"
  /\ UNCHANGED <<tensor, to_type, to_type2, from_type, strict, img_tensors, ret>>

InitFromTo ==
  /\ InitCommon
  /\ from_type \in FromLists
  /\ to_type \in ToTypes
  /\ tensor \in ShapesOf(Len(from_type), {2, 3})
  /\ strict = FALSE
  /\ img_tensors = <<>>

NextFromTo == FromTo \/ ApplyConvert

SpecFromTo == InitFromTo /\ [][NextFromTo]_vars

TestSqueezeBatch == Call("test_squeeze_batch", test_squeeze_batch(tensor, strict))

TestUnsqueezeBatch == Call("test_unsqueeze_batch", test_unsqueeze_batch(tensor))

\* test_squeeze_batch(y, strict) on the tensor y that test_unsqueeze_batch(tensor) returned
SqueezeUnsqueezed ==
  /\ pc = "test_unsqueeze_batch"
  /\ ret.err = ""
  /\ ret2' = test_squeeze_batch(ret.val, strict)
  /\ pc' = "squeeze_unsqueezed"
  /\ UNCHANGED <<tensor, to_type, to_type2, from_type, strict, img_tensors, ret>>

InitBatch ==
  /\ InitCommon
  /\ tensor \in Shapes \cup OtherRankShapes
  /\ strict \in BOOLEAN
  /\ to_type = <<>>
  /\ from_type = <<>>
  /\ img_tensors = <<>>

NextBatch == TestSqueezeBatch \/ TestUnsqueezeBatch \/ SqueezeUnsqueezed

SpecBatch == InitBatch /\ [][NextBatch]_vars

MostPixels == Call("most_pixels", most_pixels(img_tensors))

InitPixels ==
  /\ InitCommon
  /\ img_tensors \in ImgLists
  /\ tensor = <<>>
  /\ to_type = <<>>
  /\ from_type = <<>>
  /\ strict = FALSE

NextPixels == MostPixels

SpecPixels == InitPixels /\ [][NextPixels]_vars

----------------------------------------------------------------------------
(* Helpers of the properties *)

classified(t) == identify_type(t).err = ""

roles_of(t) == identify_type(t).val[1]

label_of(t) == identify_type(t).val[2]

\* 0-based position of role r in a role list that holds it
RoleIndex(roles, r) == (CHOOSE i \in 1..Len(roles) : roles[i] = <<r>>) - 1

Count(s, c) == Cardinality({i \in 1..Len(s) : s[i] = c})

\* the two strs hold the same roles, each as often
SameRoles(a, b) ==
  \A c \in {a[i] : i \in 1..Len(a)} \cup {b[i] : i \in 1..Len(b)} : Count(a, c) = Count(b, c)

\* the priority-ordered rule list of the classifier for a shape s of rank 3:
\* whether each rule matches, and the roles and label it gives
Rank3Rules(s) ==
  << [match |-> s[3] = 3, roles |-> roles_HWC, label |-> HWRGB],
     [match |-> s[3] = 4, roles |-> roles_HWC, label |-> HWRGBA],
     [match |-> s[1] = 3, roles |-> roles_CHW, label |-> RGBHW],
     [match |-> s[1] = 4, roles |-> roles_CHW, label |-> RGBAHW],
     [match |-> s[3] = 1 /\ s[1] >= 64, roles |-> roles_HWC, label |-> HWA],
     [match |-> s[1] = 1, roles |-> roles_CHW, label |-> AHW],
     [match |-> s[1] >= 2 /\ s[2] >= 64, roles |-> roles_BHW, label |-> BHW] >>

\* the rule list for a shape s of rank 4 (rules 1 and 2 each give two labels)
Rank4Rules(s) ==
  << [match |-> s[4] = 3, roles |-> roles_BHWC, label |-> BHWRGB],
     [match |-> s[4] = 4, roles |-> roles_BHWC, label |-> BHWRGBA],
     [match |-> s[2] = 3, roles |-> roles_BCHW, label |-> BRGBHW],
     [match |-> s[2] = 4, roles |-> roles_BCHW, label |-> BRGBAHW],
     [match |-> s[1] = 1 /\ s[4] = 1, roles |-> roles_BHWC, label |-> BHWA],
     [match |-> s[2] = 1, roles |-> roles_BCHW, label |-> BAHW] >>

RulesFor(s) ==
  IF Len(s) = 2 THEN << [match |-> TRUE, roles |-> roles_HW, label |-> HW] >>
  ELSE IF Len(s) = 3 THEN Rank3Rules(s)
  ELSE Rank4Rules(s)

FirstMatch(rules) ==
  CHOOSE i \in 1..Len(rules) : rules[i].match /\ \A j \in 1..(i - 1) : ~rules[j].match

----------------------------------------------------------------------------
(* Properties of the classifier and the axis lookup, under SpecIdentify *)

\* C1: identify_type returns the roles and label of the first matching rule of the
\* priority-ordered rule list; it raises the "could not determine shape" error when
\* no rule of a supported rank matches and the distinct "not a valid number of
\* dimensions" error for a rank outside {2, 3, 4}.  In particular [1,80,80] is AHW,
\* [2,80,80] is BHW, [80,80,3] is HWRGB and [1,1,80,80] is BAHW.
C1_FirstMatchingRule ==
  pc = "identify_type" =>
    /\ IF Len(tensor) \notin {2, 3, 4}
       THEN ret.err = ValueError_dimensions
       ELSE LET rules == RulesFor(tensor) IN
            IF \E i \in 1..Len(rules) : rules[i].match
            THEN ret = Return(<<rules[FirstMatch(rules)].roles, rules[FirstMatch(rules)].label>>)
            ELSE ret.err = ValueError_shape
    /\ tensor = <<1, 80, 80>> => ret = Return(<<roles_CHW, AHW>>)
    /\ tensor = <<2, 80, 80>> => ret = Return(<<roles_BHW, BHW>>)
    /\ tensor = <<80, 80, 3>> => ret = Return(<<roles_HWC, HWRGB>>)
    /\ tensor = <<1, 1, 80, 80>> => ret = Return(<<roles_BCHW, BAHW>>)

\* a shape that matches rule 3 as well as rule 1 is classified by rule 1
C1_Witness ==
  /\ pc = "identify_type"
  /\ tensor = <<3, 80, 3>>
  /\ ret = Return(<<roles_HWC, HWRGB>>)

\* C7: for every classified array infer_hw_axis returns the positions of roles H
\* and W in the role list identify_type returned, and height_width returns the
\* extents at those two axes.
C7_HwLookupCoversEveryLabel ==
  classified(tensor) =>
    LET h == RoleIndex(roles_of(tensor), "H")
        w == RoleIndex(roles_of(tensor), "W")
    IN /\ pc = "infer_hw_axis" => ret = Return(<<h, w>>)
       /\ pc = "height_width" => ret = Return(<<size(tensor, h), size(tensor, w)>>)

\* C10 as stated: ties favour the height axis in smaller_axis and in larger_axis.
C10_TiesFavorHeight ==
  LET ax == infer_hw_axis(tensor) IN
  (pc \in {"smaller_axis", "larger_axis"} /\ ax.err = "" /\ ax.val # None) =>
    LET h == size(tensor, ax.val[1])
        w == size(tensor, ax.val[2])
    IN /\ pc = "smaller_axis" =>
            ret = Return(IF h < w THEN ax.val[1] ELSE IF w < h THEN ax.val[2] ELSE ax.val[1])
       /\ pc = "larger_axis" =>
            ret = Return(IF h > w THEN ax.val[1] ELSE IF w > h THEN ax.val[2] ELSE ax.val[1])

\* C10 amended: smaller_axis returns the height axis when h < w and the width axis
\* otherwise; larger_axis returns the height axis when h > w and the width axis
\* otherwise; on a tie both return the width axis.
C10_TiesReturnWidthAxis ==
  LET ax == infer_hw_axis(tensor) IN
  (pc \in {"smaller_axis", "larger_axis"} /\ ax.err = "" /\ ax.val # None) =>
    LET h == size(tensor, ax.val[1])
        w == size(tensor, ax.val[2])
    IN /\ pc = "smaller_axis" =>
            ret = Return(IF h < w THEN ax.val[1] ELSE IF w < h THEN ax.val[2] ELSE ax.val[2])
       /\ pc = "larger_axis" =>
            ret = Return(IF h > w THEN ax.val[1] ELSE IF w > h THEN ax.val[2] ELSE ax.val[2])

\* smaller_axis on a square channel-last image returns axis 1, the width axis
C10_Witness ==
  /\ pc = "smaller_axis"
  /\ tensor = <<80, 80, 3>>
  /\ ret = Return(1)

----------------------------------------------------------------------------
(* Properties of the batch normalisers, under SpecBatch *)

\* C5 as stated: a rank-4 array loses axis 0 when its extent is 1; with extent
\* n > 1 a strict call raises the "not a single image" error carrying n and a
\* non-strict call removes axis 0 all the same; any other rank is returned unchanged.
C5_NonStrictDropsAxis0 ==
  pc = "test_squeeze_batch" =>
    IF Len(tensor) # 4 THEN ret = Return(tensor)
    ELSE /\ tensor[1] = 1 => ret = Return(Tail(tensor))
         /\ (tensor[1] > 1 /\ strict) => ret = Raise(ValueError_batch, tensor[1])
         /\ (tensor[1] > 1 /\ ~strict) => ret = Return(Tail(tensor))

\* C5 amended: as above, except that a non-strict call on a rank-4 array whose
\* axis-0 extent is n > 1 returns the array unchanged, still of rank 4.
C5_NonStrictLeavesBatch ==
  pc = "test_squeeze_batch" =>
    IF Len(tensor) # 4 THEN ret = Return(tensor)
    ELSE /\ tensor[1] = 1 => ret = Return(Tail(tensor))
         /\ (tensor[1] > 1 /\ strict) => ret = Raise(ValueError_batch, tensor[1])
         /\ (tensor[1] > 1 /\ ~strict) => ret = Return(tensor)

\* the non-strict call on a batch of five returns the batch of five
C5_Witness ==
  /\ pc = "test_squeeze_batch"
  /\ tensor = <<5, 3, 64, 64>>
  /\ ~strict
  /\ ret = Return(<<5, 3, 64, 64>>)

\* C6 as stated: for every rank-3 input test_unsqueeze_batch completes without
\* error and test_squeeze_batch of its result is the input again.
C6_RoundTripEveryRank3 ==
  Len(tensor) = 3 =>
    /\ pc = "test_unsqueeze_batch" => ret.err = ""
    /\ pc = "squeeze_unsqueezed" => ret2 = Return(tensor)

\* C6 amended: for every rank-3 input that identify_type classifies,
\* test_unsqueeze_batch completes without error and test_squeeze_batch of its
\* result, strict or not, is the input again.
C6_RoundTripClassifiedRank3 ==
  (Len(tensor) = 3 /\ classified(tensor)) =>
    /\ pc = "test_unsqueeze_batch" => ret.err = ""
    /\ pc = "squeeze_unsqueezed" => ret2 = Return(tensor)

\* a channel-last image gets a leading axis, and the strict squeeze removes it
C6_Witness ==
  /\ pc = "squeeze_unsqueezed"
  /\ tensor = <<80, 80, 3>>
  /\ strict
  /\ ret = Return(<<1, 80, 80, 3>>)
  /\ ret2 = Return(<<80, 80, 3>>)

----------------------------------------------------------------------------
(* Properties of the converter, under SpecConvert and SpecFromTo *)

\* C2 as stated: when x is classified with roles L1 and convert_to_type(x, L2) succeeds for a
\* reordering L2 of L1, convert_to_type of the result back to L1 succeeds and has
\* the extents of x at every axis.
C2_RoundTrip ==
  (/\ pc = "convert_back"
   /\ to_type2 = join(roles_of(tensor))
   /\ Len(to_type) = Len(to_type2)
   /\ SameRoles(to_type, to_type2))
  => ret2 = Return(tensor)

\* C2 amended: the round trip is the identity whenever identify_type classifies the
\* intermediate array convert_to_type(x, L2) with the roles L2.
C2_RoundTripWhenReclassifiedAsTarget ==
  (/\ pc = "convert_back"
   /\ to_type2 = join(roles_of(tensor))
   /\ Len(to_type) = Len(to_type2)
   /\ SameRoles(to_type, to_type2)
   /\ classified(ret.val)
   /\ roles_of(ret.val) = list(to_type))
  => ret2 = Return(tensor)

\* a channel-last image converted to channel-first and back
C2_Witness ==
  /\ pc = "convert_back"
  /\ tensor = <<64, 80, 3>>
  /\ to_type = <<"C", "H", "W">>
  /\ ret = Return(<<3, 64, 80>>)
  /\ to_type2 = <<"H", "W", "C">>
  /\ ret2 = Return(<<64, 80, 3>>)

\* C3: convert_to_type(x, L), L the label identify_type returns for x, returns x
\* unchanged and raises nothing.
C3_IdentityShortCircuit ==
  (pc = "convert_to_type" /\ classified(tensor) /\ to_type = label_of(tensor))
  => ret = Return(tensor)

\* C4: (a) a rank-4 array converted to a rank-3 target loses axis 0 only when its
\* extent is 1, result axis i then carrying the extent of the source axis whose role
\* is the target's i-th role, and the call fails when the extent is greater;
\* (b) for a rank-3 array and a rank-4 target the role list with the new leading B
\* holds each role once; a successful call that is not the identity short-circuit
\* returns an array whose rank is the length of the target.
C4_CrossRank ==
  (pc = "convert_to_type" /\ classified(tensor)) =>
    LET from == roles_of(tensor) IN
    /\ (Len(tensor) = 4 /\ Len(to_type) = 3 /\ tensor[1] = 1 /\ ret.err = "") =>
         /\ Len(ret.val) = 3
         /\ \A i \in 1..3 : ret.val[i] = size(tensor, RoleIndex(from, to_type[i]))
    /\ (Len(tensor) = 4 /\ Len(to_type) = 3 /\ tensor[1] > 1) => ret.err # ""
    /\ (Len(tensor) = 3 /\ Len(to_type) = 4) =>
         LET src == join(rank_adjusted(tensor, from, to_type).from_type)
         IN /\ Len(src) = 4
            /\ src[1] = "B"
            /\ \A i \in 1..4 : Count(src, src[i]) = 1
    /\ (ret.err = "" /\ from # list(to_type)) => Len(ret.val) = Len(to_type)

\* C9: from_to returns the plan whose i-th entry is the index in fromRoles of the
\* i-th role of toRoles, and fails whenever the two do not hold the same roles,
\* each as often.
C9_RoleSetMismatchFails ==
  pc = "from_to" =>
    LET from == join(from_type) IN
    IF SameRoles(from, to_type)
    THEN /\ ret.err = ""
         /\ Len(ret.val) = Len(to_type)
         /\ \A i \in 1..Len(to_type) : from[ret.val[i] + 1] = to_type[i]
    ELSE ret.err # ""

----------------------------------------------------------------------------
(* Property of most_pixels, under SpecPixels *)

\* height x width of a classified array, by the positions of its roles H and W
Pixels(t) ==
  size(t, RoleIndex(roles_of(t), "H")) * size(t, RoleIndex(roles_of(t), "W"))

\* C8: most_pixels of a non-empty list of classified arrays returns the element
\* of maximal height x width, the first of them on a tie; it fails on the empty
\* list; most_pixels([[64,64], [128,64], [32,32]]) is [128,64].
C8_MostPixelsFirstMax ==
  pc = "most_pixels" =>
    /\ img_tensors = <<>> => ret.err # ""
    /\ (img_tensors # <<>> /\ \A i \in 1..Len(img_tensors) : classified(img_tensors[i])) =>
         \E i \in 1..Len(img_tensors) :
           /\ \A j \in 1..Len(img_tensors) : Pixels(img_tensors[j]) <= Pixels(img_tensors[i])
           /\ \A j \in 1..(i - 1) : Pixels(img_tensors[j]) < Pixels(img_tensors[i])
           /\ ret = Return(img_tensors[i])
    /\ img_tensors = << <<64, 64>>, <<128, 64>>, <<32, 32>> >> => ret = Return(<<128, 64>>)

====
